---- MODULE Spec2Model ----
(***************************************************************************)
(* Model of app3.py, the boat border monitoring service: the geofence      *)
(* distance check, the decision function analyze_boat_data, the Twilio     *)
(* alert and the three Flask routes, served by concurrent worker threads.  *)
(*                                                                         *)
(* Numbers.  A Python float that is a coordinate, a speed or a direction   *)
(* is represented by its repr() string ("9.5", "10.0"); float() maps the   *)
(* text of a request field to it or raises ValueError.  A distance is the  *)
(* float returned by haversine(), in kilometres, represented by its        *)
(* ceiling in millimetres: for an integer number of kilometres n,          *)
(* d <= n iff ceil(d * 10^6) <= n * 10^6, and the minimum of ceilings is   *)
(* the ceiling of the minimum, so every comparison the code makes between  *)
(* distances and the threshold is kept.  float('inf') is Inf.              *)
(***************************************************************************)
EXTENDS Integers, Sequences, FiniteSets, TLC

\* Number of requests the server accepts in one run of the model.
MaxRequests == 3

\* Worker threads of the Flask server (app.run serves each request in a
\* thread of its own): two requests are in flight at a time.
Threads == {1, 2}

\* Python None, and a present value (model, scaler, model_prediction, ...).
None == <<>>
Some(x) == <<x>>

\* float('inf') of check_boundary_distance, above every distance in millimetres.
Inf == 2147483647

\* n kilometres in the model's unit of distance, millimetres.
Km(n) == n * 1000000

(***************************************************************************)
(* Configuration                                                           *)
(***************************************************************************)

\* GEOFENCE_CONFIG["boundary_line"]
boundary_line ==
    << [lat |-> "10.05", lng |-> "80.03"],
       [lat |-> "9.5",   lng |-> "79.9"],
       [lat |-> "9.22",  lng |-> "79.8"],
       [lat |-> "8.9",   lng |-> "79.7"],
       [lat |-> "8.2",   lng |-> "79.35"] >>

\* GEOFENCE_CONFIG as the module sets it: the fields the decision reads.
ShippedConfig == [boundary_line |-> boundary_line, safe_distance_km |-> 12]

(***************************************************************************)
(* Pure functions                                                          *)
(***************************************************************************)

\* haversine(): the great-circle distance in km (ceiling in mm) that the
\* code computes, tabulated for the observation points of the model against
\* the vertices of the boundary line; the float result is in the comment.
haversine(lat1, lon1, lat2, lon2) ==
    LET k == <<lat1, lon1, lat2, lon2>> IN
    CASE k = <<"13.0827", "80.2707", "10.05", "80.03">> -> 338238482   \* 338.2384816823673
      [] k = <<"13.0827", "80.2707", "9.5", "79.9">> -> 400422818   \* 400.4228173939634
      [] k = <<"13.0827", "80.2707", "9.22", "79.8">> -> 432570165   \* 432.5701649196149
      [] k = <<"13.0827", "80.2707", "8.9", "79.7">> -> 469246318   \* 469.24631708512544
      [] k = <<"13.0827", "80.2707", "8.2", "79.35">> -> 552169793   \* 552.1697921016502
      [] k = <<"9.0", "79.8", "10.05", "80.03">> -> 119447880   \* 119.44787983881245
      [] k = <<"9.0", "79.8", "9.5", "79.9">> -> 56670323   \* 56.67032298132736
      [] k = <<"9.0", "79.8", "9.22", "79.8">> -> 24462884   \* 24.46288386180299
      [] k = <<"9.0", "79.8", "8.9", "79.7">> -> 15629898   \* 15.629897350513904
      [] k = <<"9.0", "79.8", "8.2", "79.35">> -> 101788524   \* 101.78852303583304
      [] k = <<"9.5", "79.9", "10.05", "80.03">> -> 62794397   \* 62.794396737886736
      [] k = <<"9.5", "79.9", "9.5", "79.9">> -> 0   \* 0.0
      [] k = <<"9.5", "79.9", "9.22", "79.8">> -> 33011126   \* 33.011125854227785
      [] k = <<"9.5", "79.9", "8.9", "79.7">> -> 70235872   \* 70.23587162405303
      [] k = <<"9.5", "79.9", "8.2", "79.35">> -> 156675444   \* 156.675443200955
      [] k = <<"9.392081407289753", "79.90000001551627", "10.05", "80.03">> -> 74531700   \* 74.53169924055305
      [] k = <<"9.392081407289753", "79.90000001551627", "9.5", "79.9">> -> 12000000   \* 12.0
      [] k = <<"9.392081407289753", "79.90000001551627", "9.22", "79.8">> -> 22057697   \* 22.057696832269645
      [] k = <<"9.392081407289753", "79.90000001551627", "8.9", "79.7">> -> 58957773   \* 58.95777264603177
      [] k = <<"9.392081407289753", "79.90000001551627", "8.2", "79.35">> -> 145681185   \* 145.68118475493156
      [] k = <<"9.392081407289751", "79.9", "10.05", "80.03">> -> 74531700   \* 74.53169956563501
      [] k = <<"9.392081407289751", "79.9", "9.5", "79.9">> -> 12000001   \* 12.000000000000233
      [] k = <<"9.392081407289751", "79.9", "9.22", "79.8">> -> 22057696   \* 22.057695985258082
      [] k = <<"9.392081407289751", "79.9", "8.9", "79.7">> -> 58957773   \* 58.95777201168034
      [] k = <<"9.392081407289751", "79.9", "8.2", "79.35">> -> 145681185   \* 145.68118404759883

\* Variant of CloserThan: the comparison turned round.
FartherThan(distance, min_distance) == distance > min_distance

\* `distance < min_distance` of the loop of check_boundary_distance.
CloserThan(distance, min_distance) == distance < min_distance

\* The loop of check_boundary_distance from vertex i on, min_distance so far.
RECURSIVE BoundaryLoop(_, _, _, _, _)
BoundaryLoop(lat, lng, boundary_points, i, min_distance) ==
    IF i > Len(boundary_points) THEN min_distance
    ELSE LET point == boundary_points[i]
             distance == haversine(lat, lng, point.lat, point.lng)
         IN  BoundaryLoop(lat, lng, boundary_points, i + 1,
                IF CloserThan(distance, min_distance) THEN distance
                ELSE min_distance)

check_boundary_distance(lat, lng, boundary_points) ==
    BoundaryLoop(lat, lng, boundary_points, 1, Inf)

\* Variant of InAlertZone: a distance equal to the threshold is not inside.
StrictlyInAlertZone(distance_to_boundary, safe_distance_km) ==
    distance_to_boundary < Km(safe_distance_km)

\* `distance_to_boundary <= GEOFENCE_CONFIG["safe_distance_km"]`
InAlertZone(distance_to_boundary, safe_distance_km) ==
    distance_to_boundary <= Km(safe_distance_km)

\* f"{distance:.2f}": rounded to the hundredth of a kilometre; "inf" for inf.
\* (No distance of the haversine table lies on a rounding tie.)
Format2f(distance) ==
    IF distance = Inf THEN "inf"
    ELSE LET h == (distance + 5000) \div 10000 IN
         ToString(h \div 100) \o "." \o ToString((h % 100) \div 10)
                              \o ToString(h % 10)

\* The texts float() accepts, among those the model's requests carry.
NumericTexts ==
    { "13.0827", "80.2707", "9.0", "79.8", "9.50", "79.9",
      "9.392081407289753", "79.90000001551627", "9.392081407289751",
      "10", "90", "0" }

\* Whether float(text) returns (TRUE) or raises ValueError (FALSE).
Numeric(text) == text \in NumericTexts

\* float(text) for a numeric text: the repr of the float it denotes.
float(text) ==
    CASE text = "9.50" -> "9.5"
      [] text = "10"   -> "10.0"
      [] text = "90"   -> "90.0"
      [] text = "0"    -> "0.0"
      [] OTHER         -> text

(***************************************************************************)
(* State                                                                   *)
(***************************************************************************)

VARIABLES
    GEOFENCE_CONFIG,  \* the module's geofence configuration
    model,            \* the loaded classifier, or None
    scaler,           \* the loaded feature scaler, or None
    TWILIO_SET,       \* whether all four Twilio environment variables are set
    served,           \* requests accepted so far
    pc,               \* per thread: where its handler stands: idle,
                      \* received, parsed, analyzed, calling (inside
                      \* client.calls.create), alerted, responded
    request,          \* per thread: the request being handled
    locals,           \* per thread: latitude, longitude, speed, direction
    verdict,          \* per thread: what analyze_boat_data returned
    alert_message,    \* per thread: the message given to make_twilio_call
    call_status,      \* per thread: what make_twilio_call returned
    response,         \* per thread: the response of the handler
    trace             \* per thread: the calls the handler made, in order

vars == << GEOFENCE_CONFIG, model, scaler, TWILIO_SET, served, pc, request,
           locals, verdict, alert_message, call_status, response, trace >>

globals == << GEOFENCE_CONFIG, model, scaler, TWILIO_SET >>

(***************************************************************************)
(* Geofence and decision                                                   *)
(***************************************************************************)

check_geofence_status(lat, lng) ==
    LET distance_to_boundary ==
            check_boundary_distance(lat, lng, GEOFENCE_CONFIG.boundary_line)
    IN  IF InAlertZone(distance_to_boundary, GEOFENCE_CONFIG.safe_distance_km)
        THEN <<0, distance_to_boundary>>
        ELSE <<1, distance_to_boundary>>

\* What the classifier does when it is invoked on the features of one call:
\* scaler.transform raises, model.predict raises, or predict returns a label.
ClassifierAnswers == { "NORMAL", "SUSPICIOUS", "scaler_raises", "model_raises" }

Raises(answer) == answer \in { "scaler_raises", "model_raises" }

Label(answer) == IF answer = "SUSPICIOUS" THEN 1 ELSE 0

\* Variant of ConsultsClassifier: the classifier is asked in either zone.
ConsultsClassifierAnyZone(zone_status) == model # None /\ scaler # None

\* The branch that consults the classifier: the else of `zone_status == 0`
\* and `model is not None and scaler is not None`.
ConsultsClassifier(zone_status) ==
    zone_status # 0 /\ model # None /\ scaler # None

\* The calls analyze_boat_data makes to the classifier, in order.
ClassifierCalls(zone_status, answer) ==
    IF ~ConsultsClassifier(zone_status) THEN <<>>
    ELSE IF answer = "scaler_raises" THEN << "scaler.transform raised" >>
    ELSE IF answer = "model_raises"
         THEN << "scaler.transform", "model.predict raised" >>
    ELSE << "scaler.transform", "model.predict" >>

\* Variant of PredictsSuspicious: the label read the other way round.
PredictsNormal(model_prediction) == model_prediction = 0

\* `model_prediction == 1`
PredictsSuspicious(model_prediction) == model_prediction = 1

\* Variant of OnModelError: a failed classifier counts as a suspicious one.
OnModelErrorSuspect(v) ==
    [v EXCEPT !.is_suspicious = TRUE,
              !.zone_message = @ \o " WARNING: Behavior appears suspicious!"]

\* `except Exception as e: print(...)`: the verdict built so far stands.
OnModelError(v) == v

\* The try block of analyze_boat_data, applied to the verdict built so far.
TryClassifier(v, answer) ==
    IF Raises(answer) THEN OnModelError(v)
    ELSE LET model_prediction == Label(answer) IN
         IF PredictsSuspicious(model_prediction)
         THEN [v EXCEPT !.model_prediction = Some(model_prediction),
                        !.is_suspicious = TRUE,
                        !.zone_message =
                            @ \o " WARNING: Behavior appears suspicious!"]
         ELSE [v EXCEPT !.model_prediction = Some(model_prediction)]

\* analyze_boat_data; `answer` is what the classifier does if it is invoked.
analyze_boat_data(latitude, longitude, speed, direction, answer) ==
    LET gs == check_geofence_status(latitude, longitude)
        zone_status == gs[1]
        distance == gs[2]
        v == IF zone_status = 0
             THEN [is_suspicious |-> TRUE, zone_status |-> zone_status,
                   zone_message |->
                       "ALERT: Boat is in restricted zone! "
                       \o Format2f(distance) \o " km from boundary",
                   distance |-> distance, model_prediction |-> None]
             ELSE [is_suspicious |-> FALSE, zone_status |-> zone_status,
                   zone_message |->
                       "Safe: Boat is in safe zone. "
                       \o Format2f(distance) \o " km from boundary",
                   distance |-> distance, model_prediction |-> None]
    IN  IF ConsultsClassifier(zone_status) THEN TryClassifier(v, answer)
        ELSE v

\* make_twilio_call: False without credentials or when the client raises.
make_twilio_call(message, client_raises) ==
    IF ~TWILIO_SET THEN FALSE
    ELSE IF client_raises THEN FALSE
    ELSE TRUE

(***************************************************************************)
(* Requests                                                                *)
(***************************************************************************)

\* The form fields or JSON members of the telemetry requests of the model.
Payloads ==
    { [latitude |-> "13.0827", longitude |-> "80.2707",
       speed |-> "10", direction |-> "90"],
      [latitude |-> "9.50", longitude |-> "79.9",
       speed |-> "10", direction |-> "90"],
      [latitude |-> "9.392081407289753", longitude |-> "79.90000001551627",
       speed |-> "10", direction |-> "90"],
      [latitude |-> "9.392081407289751", longitude |-> "79.9",
       speed |-> "0", direction |-> "90"],
      [latitude |-> "9.0", longitude |-> "79.8"],
      [longitude |-> "79.9", speed |-> "10", direction |-> "90"],
      [latitude |-> "abc", longitude |-> "79.9",
       speed |-> "10", direction |-> "90"],
      [latitude |-> "9.50", speed |-> "10", direction |-> "90"],
      [latitude |-> "9.50", longitude |-> "79,9"] }

Has(data, key) == key \in DOMAIN data

\* The routes of the application.
Routes ==
    { [method |-> "GET",  path |-> "/"],
      [method |-> "POST", path |-> "/"],
      [method |-> "GET",  path |-> "/geofence"],
      [method |-> "POST", path |-> "/check-point"] }

Requests ==
    { [method |-> r.method, path |-> r.path, data |-> d] :
        r \in { x \in Routes : x.method = "POST" }, d \in Payloads }
    \cup
    { [method |-> r.method, path |-> r.path, data |-> <<>>] :
        r \in { x \in Routes : x.method = "GET" } }

\* str(e) of the exception raised for a field, "" when none is: the
\* BadRequestKeyError of request.form[key] on a missing key, whose text is
\* the same for every key (the handler catches it itself, so the key is
\* never added to it), and the ValueError of float() on a text that is no
\* number, which quotes the text.
KeyErrorText(key) ==
    "400 Bad Request: The browser (or proxy) sent a request that this "
    \o "server could not understand."

ValueErrorText(text) ==
    "could not convert string to float: '" \o text \o "'"

\* Variant of FormFieldError: the field is taken as it is, float() not called.
FormFieldPresent(data, key) ==
    IF ~Has(data, key) THEN KeyErrorText(key) ELSE ""

\* float(request.form[key])
FormFieldError(data, key) ==
    IF ~Has(data, key) THEN KeyErrorText(key)
    ELSE IF ~Numeric(data[key]) THEN ValueErrorText(data[key])
    ELSE ""

\* float(data[key]) after the test that latitude and longitude are there,
\* and float(data.get(key, 0)) for speed and direction.
JsonFieldError(data, key) ==
    IF Has(data, key) /\ ~Numeric(data[key]) THEN ValueErrorText(data[key])
    ELSE ""

FirstError(errors) ==
    IF \A i \in 1..Len(errors) : errors[i] = "" THEN ""
    ELSE errors[CHOOSE i \in 1..Len(errors) :
                    /\ errors[i] # ""
                    /\ \A j \in 1..(i - 1) : errors[j] = ""]

FieldOrder == << "latitude", "longitude", "speed", "direction" >>

\* The exception the four float(request.form[...]) lines raise, "" if none.
FormError(data) ==
    FirstError([i \in 1..4 |-> FormFieldError(data, FieldOrder[i])])

\* The exception the four float(...) lines of api_check_point raise.
JsonError(data) ==
    FirstError([i \in 1..4 |-> JsonFieldError(data, FieldOrder[i])])

\* `'latitude' in data and 'longitude' in data`
HasCoordinates(data) == Has(data, "latitude") /\ Has(data, "longitude")

\* The handler's latitude, longitude, speed and direction once parsed.
ParsedFields(data) ==
    [latitude  |-> float(data["latitude"]),
     longitude |-> float(data["longitude"]),
     speed     |-> IF Has(data, "speed") THEN float(data["speed"])
                   ELSE float("0"),
     direction |-> IF Has(data, "direction") THEN float(data["direction"])
                   ELSE float("0")]

\* render_template('index1.html', ...) with the messages flashed so far.
Page(prediction, zone_message, distance, flashed) ==
    [status |-> 200, template |-> "index1.html", prediction |-> prediction,
     zone_message |-> zone_message, distance |-> distance,
     geofence_config |-> GEOFENCE_CONFIG, flashed |-> flashed]

\* jsonify({"status": "error", "message": ...}), 400
ErrorJson(message) ==
    [status |-> 400, json |-> [status |-> "error", message |-> message]]

\* The alert message each handler builds for a suspicious verdict.
FormAlertMessage(l, v) ==
    "Suspicious boat detected at coordinates: " \o l.latitude \o ", "
    \o l.longitude \o ". Speed: " \o l.speed \o ", Direction: "
    \o l.direction \o ". " \o v.zone_message

JsonAlertMessage(l, data) ==
    "Alert! Boat detected in restricted zone at coordinates: "
    \o l.latitude \o ", " \o l.longitude \o "."
    \o (IF Has(data, "speed") /\ Has(data, "direction")
        THEN " Speed: " \o l.speed \o ", Direction: " \o l.direction \o "."
        ELSE "")

\* Variant of ShouldAlert: the call is placed for every verdict.
AlertAlways(is_suspicious) == TRUE

\* `if is_suspicious:` before make_twilio_call, in both handlers.
ShouldAlert(is_suspicious) == is_suspicious

\* The response of predict_boat_status after the analysis.
FormResponse(v, alerted, status) ==
    Page(Some(IF v.is_suspicious THEN 1 ELSE 0), Some(v.zone_message),
         Some(v.distance),
         << IF alerted
            THEN IF status THEN v.zone_message \o " Phone alert has been sent."
                 ELSE v.zone_message \o " Failed to send phone alert."
            ELSE v.zone_message >>)

\* The types model.predict(...)[0] can have: a Python int, or the numpy
\* integer a scikit-learn estimator returns.  Both compare equal to 1 or not
\* in analyze_boat_data; only the first can be written as JSON.
LabelTypes == { "int", "int64" }

\* The model joblib.load returns, with the type of the labels it predicts.
LoadedModel(labels) == Some([file |-> "boat_border_model.pkl",
                             labels |-> labels])

\* jsonify can encode the model_prediction of the verdict: None always, a
\* label only when the model predicts Python ints.
JsonSerializable(model_prediction) ==
    model_prediction = None \/ model[1].labels = "int"

\* The response of api_check_point after the analysis: the JSON body, or,
\* when jsonify raises on the label inside the try block, the 400 of the
\* except clause, after the analysis and after the alert.
JsonResponse(v, alerted, status) ==
    IF ~JsonSerializable(v.model_prediction)
    THEN ErrorJson("Object of type " \o model[1].labels
                       \o " is not JSON serializable")
    ELSE [status |-> 200,
          json |-> [inside_safe_zone |-> v.zone_status = 1,
                    is_suspicious |-> v.is_suspicious,
                    status_code |-> v.zone_status,
                    distance_to_boundary |-> v.distance,
                    message |-> v.zone_message,
                    model_prediction |-> v.model_prediction]]

(***************************************************************************)
(* Handlers                                                                *)
(***************************************************************************)

\* Variant of StoreLocal: the variable is a module global, one for all threads.
StoreShared(f, t, value) == [u \in DOMAIN f |-> value]

\* An assignment to a local variable of a handler: the thread's own.
StoreLocal(f, t, value) == [f EXCEPT ![t] = value]

IsRoute(t, method, path) ==
    request[t].method = method /\ request[t].path = path

Idle == [method |-> "", path |-> "", data |-> <<>>]

NoLocals == [latitude |-> "", longitude |-> "", speed |-> "", direction |-> ""]

NoVerdict ==
    [is_suspicious |-> FALSE, zone_status |-> 1, zone_message |-> "",
     distance |-> 0, model_prediction |-> None]

NoResponse == [status |-> 0]

\* Flask hands a request to a worker thread.
Receive(t) ==
    /\ pc[t] = "idle"
    /\ served < MaxRequests
    /\ \E r \in Requests : request' = [request EXCEPT ![t] = r]
    /\ served' = served + 1
    /\ pc' = [pc EXCEPT ![t] = "received"]
    /\ UNCHANGED << globals, locals, verdict, alert_message, call_status,
                    response, trace >>

\* predict_boat_status, GET: the page with nothing on it.
FormGet(t) ==
    /\ pc[t] = "received"
    /\ IsRoute(t, "GET", "/")
    /\ response' = StoreLocal(response, t, Page(None, None, None, <<>>))
    /\ pc' = [pc EXCEPT ![t] = "responded"]
    /\ UNCHANGED << globals, served, request, locals, verdict, alert_message,
                    call_status, trace >>

\* get_geofence
GetGeofence(t) ==
    /\ pc[t] = "received"
    /\ IsRoute(t, "GET", "/geofence")
    /\ response' = StoreLocal(response, t,
                              [status |-> 200, json |-> GEOFENCE_CONFIG])
    /\ pc' = [pc EXCEPT ![t] = "responded"]
    /\ UNCHANGED << globals, served, request, locals, verdict, alert_message,
                    call_status, trace >>

\* predict_boat_status, POST, up to the call of analyze_boat_data: the four
\* float(request.form[...]); an exception is flashed and the page rendered.
FormParse(t) ==
    /\ pc[t] = "received"
    /\ IsRoute(t, "POST", "/")
    /\ LET e == FormError(request[t].data) IN
       IF e # ""
       THEN /\ response' = StoreLocal(response, t,
                   Page(None, None, None,
                        << "Error processing request: " \o e >>))
            /\ pc' = [pc EXCEPT ![t] = "responded"]
            /\ UNCHANGED locals
       ELSE /\ locals' = StoreLocal(locals, t, ParsedFields(request[t].data))
            /\ pc' = [pc EXCEPT ![t] = "parsed"]
            /\ UNCHANGED response
    /\ UNCHANGED << globals, served, request, verdict, alert_message,
                    call_status, trace >>

\* api_check_point up to the call of analyze_boat_data.
JsonParse(t) ==
    /\ pc[t] = "received"
    /\ IsRoute(t, "POST", "/check-point")
    /\ LET data == request[t].data
           e == JsonError(data)
       IN  IF ~HasCoordinates(data)
           THEN /\ response' = StoreLocal(response, t,
                                          ErrorJson("Invalid data"))
                /\ pc' = [pc EXCEPT ![t] = "responded"]
                /\ UNCHANGED locals
           ELSE IF e # ""
           THEN /\ response' = StoreLocal(response, t, ErrorJson(e))
                /\ pc' = [pc EXCEPT ![t] = "responded"]
                /\ UNCHANGED locals
           ELSE /\ locals' = StoreLocal(locals, t, ParsedFields(data))
                /\ pc' = [pc EXCEPT ![t] = "parsed"]
                /\ UNCHANGED response
    /\ UNCHANGED << globals, served, request, verdict, alert_message,
                    call_status, trace >>

\* The call of analyze_boat_data, in either handler.
Analyze(t) ==
    /\ pc[t] = "parsed"
    /\ \E answer \in ClassifierAnswers :
         LET l == locals[t]
             v == analyze_boat_data(l.latitude, l.longitude, l.speed,
                                    l.direction, answer)
         IN  /\ verdict' = StoreLocal(verdict, t, v)
             /\ trace' = [trace EXCEPT ![t] =
                   @ \o << "analyze_boat_data" >>
                     \o ClassifierCalls(v.zone_status, answer)]
    /\ pc' = [pc EXCEPT ![t] = "analyzed"]
    /\ UNCHANGED << globals, served, request, locals, alert_message,
                    call_status, response >>

\* `if is_suspicious:` taken: the handler builds the message and enters
\* make_twilio_call.  Without credentials the function returns False at
\* once; with them it places the call with client.calls.create and waits
\* for the reply, and other threads run during the wait.
Alert(t) ==
    /\ pc[t] = "analyzed"
    /\ ShouldAlert(verdict[t].is_suspicious)
    /\ alert_message' = StoreLocal(alert_message, t,
           IF request[t].path = "/"
           THEN FormAlertMessage(locals[t], verdict[t])
           ELSE JsonAlertMessage(locals[t], request[t].data))
    /\ trace' = [trace EXCEPT ![t] = Append(@, "make_twilio_call")]
    /\ IF ~TWILIO_SET
       THEN /\ call_status' = StoreLocal(call_status, t,
                                  make_twilio_call(alert_message'[t], FALSE))
            /\ pc' = [pc EXCEPT ![t] = "alerted"]
       ELSE /\ pc' = [pc EXCEPT ![t] = "calling"]
            /\ UNCHANGED call_status
    /\ UNCHANGED << globals, served, request, locals, verdict, response >>

\* client.calls.create returns or raises: make_twilio_call returns True or
\* False to the handler, which only now has a call_status.
AlertReturn(t) ==
    /\ pc[t] = "calling"
    /\ \E client_raises \in BOOLEAN :
         call_status' = StoreLocal(call_status, t,
                            make_twilio_call(alert_message[t], client_raises))
    /\ pc' = [pc EXCEPT ![t] = "alerted"]
    /\ UNCHANGED << globals, served, request, locals, verdict, alert_message,
                    response, trace >>

\* The rest of either handler: the flash and the page, or the JSON body.
Respond(t) ==
    /\ \/ pc[t] = "alerted"
       \/ pc[t] = "analyzed" /\ ~ShouldAlert(verdict[t].is_suspicious)
    /\ response' = StoreLocal(response, t,
           IF request[t].path = "/"
           THEN FormResponse(verdict[t], pc[t] = "alerted", call_status[t])
           ELSE JsonResponse(verdict[t], pc[t] = "alerted", call_status[t]))
    /\ pc' = [pc EXCEPT ![t] = "responded"]
    /\ UNCHANGED << globals, served, request, locals, verdict, alert_message,
                    call_status, trace >>

\* The response is sent and the thread's frame is gone.
Complete(t) ==
    /\ pc[t] = "responded"
    /\ pc' = [pc EXCEPT ![t] = "idle"]
    /\ request' = [request EXCEPT ![t] = Idle]
    /\ locals' = [locals EXCEPT ![t] = NoLocals]
    /\ verdict' = [verdict EXCEPT ![t] = NoVerdict]
    /\ alert_message' = [alert_message EXCEPT ![t] = ""]
    /\ call_status' = [call_status EXCEPT ![t] = FALSE]
    /\ response' = [response EXCEPT ![t] = NoResponse]
    /\ trace' = [trace EXCEPT ![t] = <<>>]
    /\ UNCHANGED << globals, served >>

(***************************************************************************)
(* Specifications                                                          *)
(***************************************************************************)

\* The module's start-up: GEOFENCE_CONFIG is the literal; the model and the
\* scaler are both loaded, or neither, or the model alone when loading the
\* scaler raised (the except leaves what was assigned); the Twilio variables
\* are all set or not.
Init ==
    /\ GEOFENCE_CONFIG = ShippedConfig
    /\ \E loaded \in
           { << None, None >> }
           \cup { << LoadedModel(labels), s >> :
                     labels \in LabelTypes, s \in { None, Some("scaler.pkl") } } :
         model = loaded[1] /\ scaler = loaded[2]
    /\ TWILIO_SET \in BOOLEAN
    /\ served = 0
    /\ pc = [t \in Threads |-> "idle"]
    /\ request = [t \in Threads |-> Idle]
    /\ locals = [t \in Threads |-> NoLocals]
    /\ verdict = [t \in Threads |-> NoVerdict]
    /\ alert_message = [t \in Threads |-> ""]
    /\ call_status = [t \in Threads |-> FALSE]
    /\ response = [t \in Threads |-> NoResponse]
    /\ trace = [t \in Threads |-> <<>>]

Next ==
    \E t \in Threads :
        \/ Receive(t)
        \/ FormGet(t)
        \/ GetGeofence(t)
        \/ FormParse(t)
        \/ JsonParse(t)
        \/ Analyze(t)
        \/ Alert(t)
        \/ AlertReturn(t)
        \/ Respond(t)
        \/ Complete(t)

Spec == Init /\ [][Next]_vars

(***************************************************************************)
(* Properties                                                              *)
(***************************************************************************)

\* analyze_boat_data has returned to thread t's handler.
Analyzed(t) == trace[t] # <<>>

\* The entries a call of the classifier leaves in the trace.
ClassifierEvents ==
    { "scaler.transform", "scaler.transform raised",
      "model.predict", "model.predict raised" }

Made(t, events) == \E i \in 1..Len(trace[t]) : trace[t][i] \in events

\* The zone of thread t's observation, from the geofence alone.
ZoneOf(t) == check_geofence_status(locals[t].latitude, locals[t].longitude)[1]

SafeMessage(distance) ==
    "Safe: Boat is in safe zone. " \o Format2f(distance) \o " km from boundary"

\* The latitude or the longitude of a telemetry request is missing or is
\* not a number.
BadCoordinates(data) ==
    \E key \in { "latitude", "longitude" } :
        ~Has(data, key) \/ data[key] \notin NumericTexts

Telemetry(t) == request[t].method = "POST"

\* C1: in every verdict analyze_boat_data returns, is_suspicious is true
\* exactly when the zone is ALERT (0), or the zone is SAFE (1) and the
\* model's prediction is SUSPICIOUS (1).
C1_SuspiciousIff ==
    \A t \in Threads :
        Analyzed(t) =>
            LET v == verdict[t] IN
            v.is_suspicious <=>
                \/ v.zone_status = 0
                \/ v.zone_status = 1 /\ v.model_prediction = Some(1)

C1_Witness ==
    \E t \in Threads :
        /\ Analyzed(t)
        /\ verdict[t].zone_status = 1
        /\ verdict[t].model_prediction = Some(1)
        /\ verdict[t].is_suspicious

\* C2: for an observation in the ALERT zone the verdict is suspicious, its
\* model_prediction is None and neither scaler.transform nor model.predict
\* was called, whether or not a classifier is loaded.
C2_AlertShortCircuit ==
    \A t \in Threads :
        Analyzed(t) /\ ZoneOf(t) = 0 =>
            /\ verdict[t].is_suspicious
            /\ verdict[t].zone_status = 0
            /\ verdict[t].model_prediction = None
            /\ ~Made(t, ClassifierEvents)

C2_Witness ==
    \E t \in Threads :
        /\ Analyzed(t)
        /\ ZoneOf(t) = 0
        /\ model # None
        /\ scaler # None

\* C3: when the classifier is invoked for a SAFE observation and the scaler
\* or the model raises, analyze_boat_data still returns: the verdict is not
\* suspicious, has no model_prediction and carries the plain SAFE message,
\* and the handler answers with it and not with an error.
C3_ClassifierFailure ==
    \A t \in Threads :
        Made(t, { "scaler.transform raised", "model.predict raised" }) =>
            /\ pc[t] \in { "analyzed", "responded" }
            /\ verdict[t].zone_status = 1
            /\ ~verdict[t].is_suspicious
            /\ verdict[t].model_prediction = None
            /\ verdict[t].zone_message = SafeMessage(verdict[t].distance)
            /\ pc[t] = "responded" =>
                   /\ response[t].status = 200
                   /\ ~Made(t, { "make_twilio_call" })
                   /\ request[t].path = "/check-point" =>
                          /\ ~response[t].json.is_suspicious
                          /\ response[t].json.model_prediction = None
                   /\ request[t].path = "/" =>
                          /\ response[t].prediction = Some(0)
                          /\ response[t].flashed
                                 = << SafeMessage(verdict[t].distance) >>

C3_Witness ==
    \E t \in Threads :
        /\ Made(t, { "model.predict raised" })
        /\ pc[t] = "responded"
        /\ response[t].status = 200

\* C4: check_geofence_status returns ALERT (0) exactly when the distance it
\* returns is at most the safe distance, and SAFE (1) otherwise; a distance
\* equal to the threshold is ALERT.
C4_ZoneIffWithinThreshold ==
    \A t \in Threads :
        Analyzed(t) =>
            LET v == verdict[t] IN
            /\ v.zone_status \in { 0, 1 }
            /\ v.zone_status = 0
                   <=> v.distance <= Km(GEOFENCE_CONFIG.safe_distance_km)

C4_Witness ==
    \E t \in Threads :
        /\ Analyzed(t)
        /\ verdict[t].distance = Km(GEOFENCE_CONFIG.safe_distance_km)
        /\ verdict[t].zone_status = 0

\* C5: in the form handler and in POST /check-point, make_twilio_call is
\* called at most once, only after analyze_boat_data has returned, and only
\* when the verdict it returned is suspicious; a request whose verdict is
\* not suspicious completes without a call.
C5_AlertOnlyWhenSuspicious ==
    \A t \in Threads :
        /\ Made(t, { "make_twilio_call" }) =>
               /\ trace[t][1] = "analyze_boat_data"
               /\ trace[t][Len(trace[t])] = "make_twilio_call"
               /\ \A i \in 1..(Len(trace[t]) - 1) :
                      trace[t][i] # "make_twilio_call"
               /\ verdict[t].is_suspicious
               /\ pc[t] \in { "calling", "alerted", "responded" }
        /\ pc[t] \in { "calling", "alerted" }
               => Made(t, { "make_twilio_call" })
        /\ Analyzed(t) /\ ~verdict[t].is_suspicious /\ pc[t] = "responded"
               => ~Made(t, { "make_twilio_call" })

C5_Witness ==
    \E t, u \in Threads :
        /\ pc[t] = "responded"
        /\ Made(t, { "make_twilio_call" })
        /\ pc[u] = "responded"
        /\ Analyzed(u)
        /\ ~verdict[u].is_suspicious

\* The response thread t's handler gives when the alert it placed succeeded.
ResponseIfAlertSent(t) ==
    IF request[t].path = "/" THEN FormResponse(verdict[t], TRUE, TRUE)
    ELSE JsonResponse(verdict[t], TRUE, TRUE)

\* C6: when a suspicious verdict triggers the alert and the alert fails,
\* in either handler, the request is answered with the status it has when
\* the alert succeeds (the failure is not fatal), the answer tells the
\* caller that the alert failed, and the verdict in the answer is the one
\* analyze_boat_data returned.
C6_AlertFailureReported ==
    \A t \in Threads :
        (pc[t] = "responded" /\ Made(t, { "make_twilio_call" })
                             /\ ~call_status[t]) =>
            /\ response[t].status = ResponseIfAlertSent(t).status
            /\ response[t] # ResponseIfAlertSent(t)
            /\ request[t].path = "/check-point" /\ response[t].status = 200 =>
                   /\ response[t].json.is_suspicious
                   /\ response[t].json.message = verdict[t].zone_message
            /\ request[t].path = "/" =>
                   /\ response[t].prediction = Some(1)
                   /\ response[t].zone_message = Some(verdict[t].zone_message)

\* C8 as stated: a telemetry request whose latitude or longitude is missing
\* or not numeric is answered with a client error (4xx), and neither
\* analyze_boat_data nor make_twilio_call is called for it.
C8_Original ==
    \A t \in Threads :
        Telemetry(t) /\ BadCoordinates(request[t].data) =>
            /\ trace[t] = <<>>
            /\ pc[t] \in { "received", "responded" }
            /\ pc[t] = "responded" => response[t].status \in 400..499

\* C8 as amended: for such a request neither analyze_boat_data nor
\* make_twilio_call is called; POST /check-point answers 400 with an error
\* body, and the form handler answers with the page (200), an
\* "Error processing request" message flashed on it and no prediction,
\* zone message or distance.
C8_MalformedNeverAnalyzed ==
    \A t \in Threads :
        Telemetry(t) /\ BadCoordinates(request[t].data) =>
            /\ trace[t] = <<>>
            /\ pc[t] \in { "received", "responded" }
            /\ pc[t] = "responded" /\ request[t].path = "/check-point" =>
                   /\ response[t].status = 400
                   /\ response[t].json.status = "error"
            /\ pc[t] = "responded" /\ request[t].path = "/" =>
                   /\ response[t].status = 200
                   /\ response[t].prediction = None
                   /\ response[t].zone_message = None
                   /\ response[t].distance = None
                   /\ Len(response[t].flashed) = 1
                   /\ response[t].flashed[1] = "Error processing request: "
                          \o FormError(request[t].data)

C8_Witness ==
    \E t, u \in Threads :
        /\ pc[t] = "responded" /\ request[t].path = "/"
        /\ Telemetry(t) /\ BadCoordinates(request[t].data)
        /\ pc[u] = "responded" /\ request[u].path = "/check-point"
        /\ BadCoordinates(request[u].data)

\* What a request is answered when it is handled alone, for each answer of
\* the classifier and each outcome of the Twilio client.
VerdictAlone(req, answer) ==
    LET l == ParsedFields(req.data) IN
    analyze_boat_data(l.latitude, l.longitude, l.speed, l.direction, answer)

ResponseAlone(req, answer, client_raises) ==
    LET v == VerdictAlone(req, answer)
        sent == make_twilio_call("", client_raises)
    IN  IF req.path = "/" THEN FormResponse(v, v.is_suspicious, sent)
        ELSE JsonResponse(v, v.is_suspicious, sent)

OwnVerdict ==
    \A t \in Threads :
        Analyzed(t) =>
            /\ verdict[t] \in
                   { VerdictAlone(request[t], a) : a \in ClassifierAnswers }
            /\ pc[t] = "responded" =>
                   response[t] \in
                       { ResponseAlone(request[t], a, c) :
                           a \in ClassifierAnswers, c \in BOOLEAN }

\* C9: under every interleaving of the threads, the verdict and the answer
\* of a request are those of the request handled alone, with the
\* classifier's answer for its own features; and no step of any handler
\* changes GEOFENCE_CONFIG, model, scaler or the Twilio settings.
C9_RequestsIndependent ==
    /\ []OwnVerdict
    /\ [][globals' = globals]_vars

C9_Witness ==
    \E t, u \in Threads :
        /\ t # u
        /\ pc[t] = "responded" /\ Analyzed(t)
        /\ pc[u] = "calling"
        /\ verdict[t].distance # verdict[u].distance
        /\ verdict[t].zone_status # verdict[u].zone_status

\* The distances from thread t's point to the vertices of the boundary line.
VertexDistance(t, i) ==
    haversine(locals[t].latitude, locals[t].longitude,
              GEOFENCE_CONFIG.boundary_line[i].lat,
              GEOFENCE_CONFIG.boundary_line[i].lng)

\* C10: for a non-empty boundary line check_boundary_distance returns the
\* minimum of the distances to its vertices: the distance to one of them,
\* at most the distance to each, and not negative.
C10_MinimumOverVertices ==
    \A t \in Threads :
        Analyzed(t) /\ GEOFENCE_CONFIG.boundary_line # <<>> =>
            LET n == Len(GEOFENCE_CONFIG.boundary_line)
                d == verdict[t].distance
            IN  /\ \E i \in 1..n : d = VertexDistance(t, i)
                /\ \A i \in 1..n : d <= VertexDistance(t, i)
                /\ d >= 0

C10_Witness ==
    \E t \in Threads :
        /\ Analyzed(t)
        /\ Len(GEOFENCE_CONFIG.boundary_line) >= 3
        /\ \E i \in 2..(Len(GEOFENCE_CONFIG.boundary_line) - 1) :
             /\ verdict[t].distance = VertexDistance(t, i)
             /\ verdict[t].distance < VertexDistance(t, i - 1)
             /\ verdict[t].distance < VertexDistance(t, i + 1)

====
